---------------------------- MODULE Spec2Model ----------------------------
(***************************************************************************)
(* Model of the media_types crate: the byte-level tokenizer of             *)
(* src/src/utils.rs, the structuring stage (FromStr), the serializer       *)
(* (Display), the accessors and the classification predicates of           *)
(* src/src/lib.rs.                                                         *)
(*                                                                         *)
(* A string is a sequence of byte values (ASCII codes).  The cursor `s`    *)
(* of the tokenizer is 0-based as in the source; At(sequence, s) is        *)
(* sequence[*s].  An index past the end of the slice is a Rust panic,      *)
(* which the model reports as the outcome "Panic".                         *)
(***************************************************************************)
EXTENDS Integers, Sequences, FiniteSets, TLC

(***************************************************************************)
(* Byte literals.  Printable lists the ASCII characters 32 .. 126 in code  *)
(* order, so that Code("a") = 97 and Str(<<"a", "/">>) = <<97, 47>>; the   *)
(* grave accent (96) cannot be written in a string and is named.           *)
(***************************************************************************)
Printable ==
    << " ", "!", "\"", "#", "$", "%", "&", "'", "(", ")", "*", "+", ",", "-",
       ".", "/", "0", "1", "2", "3", "4", "5", "6", "7", "8", "9", ":", ";",
       "<", "=", ">", "?", "@", "A", "B", "C", "D", "E", "F", "G", "H", "I",
       "J", "K", "L", "M", "N", "O", "P", "Q", "R", "S", "T", "U", "V", "W",
       "X", "Y", "Z", "[", "\\", "]", "^", "_", "grave", "a", "b", "c", "d", "e",
       "f", "g", "h", "i", "j", "k", "l", "m", "n", "o", "p", "q", "r", "s",
       "t", "u", "v", "w", "x", "y", "z", "{", "|", "}", "~" >>

Code(c) ==
    IF c = "\t" THEN 9
    ELSE IF c = "\n" THEN 10
    ELSE IF c = "\r" THEN 13
    ELSE 31 + (CHOOSE i \in 1..Len(Printable) : Printable[i] = c)

Str(cs) == [i \in 1..Len(cs) |-> Code(cs[i])]

SP        == Code(" ")
TAB       == Code("\t")
LF        == Code("\n")
CR        == Code("\r")
DQUOTE    == Code("\"")
SQUOTE    == Code("'")
BACKSLASH == Code("\\")
SLASH     == Code("/")
SEMI      == Code(";")
EQUALS    == Code("=")
STAR      == Code("*")
PLUS      == Code("+")
DOT       == Code(".")
GRAVE     == Code("grave")

(***************************************************************************)
(* Grammar predicates (src/src/utils.rs, lines 6-55).                      *)
(***************************************************************************)
alpha(c) == (c >= Code("A") /\ c <= Code("Z")) \/ (c >= Code("a") /\ c <= Code("z"))

digit(c) == c >= Code("0") /\ c <= Code("9")

tchar(c) ==
    \/ c \in { Code("!"), Code("#"), Code("$"), Code("%"), Code("&"), SQUOTE,
               STAR, PLUS, Code("-"), DOT, Code("^"), Code("_"), GRAVE,
               Code("|"), Code("~") }
    \/ digit(c)
    \/ alpha(c)

bcharsnospace(c) ==
    \/ digit(c)
    \/ alpha(c)
    \/ c \in { SQUOTE, Code("("), Code(")"), PLUS, Code("_"), Code(","),
               Code("-"), DOT, SLASH, Code(":"), EQUALS, Code("?") }

bchars(c) == bcharsnospace(c) \/ c = SP

token(str) == str # <<>> /\ \A i \in 1..Len(str) : tchar(str[i])

BoundaryMax == 70

\* utils::boundary with the length test `s.len() < 70`
utils_boundary_below_limit(str) ==
    /\ str # <<>>
    /\ Len(str) < BoundaryMax
    /\ \A i \in 1..Len(str) : bchars(str[i])
    /\ bcharsnospace(str[Len(str)])

utils_boundary(str) ==
    /\ str # <<>>
    /\ Len(str) <= BoundaryMax
    /\ \A i \in 1..Len(str) : bchars(str[i])
    /\ bcharsnospace(str[Len(str)])

is_whitespace(c) == c = SP \/ c = LF \/ c = CR \/ c = TAB

is_undefined(sequence, s) == Len(sequence) <= s

\* sequence[*s] for a cursor within the slice
At(sequence, s) == sequence[s + 1]

\* u8::to_ascii_lowercase leaving every byte as it is
to_ascii_lowercase_kept(c) == c

\* u8::to_ascii_lowercase
to_ascii_lowercase(c) == IF c >= Code("A") /\ c <= Code("Z") THEN c + 32 ELSE c

(***************************************************************************)
(* The loops of src/src/utils.rs.  Each loop is an operator X_body, one    *)
(* iteration as a function of the loop's variables, and an operator X that *)
(* iterates it until the loop is left: the field `kind` is "Loop" while    *)
(* the loop goes on and says how the loop was left afterwards.  Every      *)
(* iteration that goes on advances the cursor s, so Steps(sequence)        *)
(* iterations are enough; X halves them to keep the evaluation shallow.    *)
(***************************************************************************)
Steps(sequence) == Len(sequence) + 1

(***************************************************************************)
(* parse_type_portion (src/src/utils.rs, lines 59-91).  The counters t and *)
(* u are u8; they never exceed 128, so they do not wrap.                   *)
(***************************************************************************)
TypeCap == 127

\* lines 63-72
TypeLoop_body(sequence, st) ==
    IF st.t > TypeCap \/ is_undefined(sequence, st.s)
    THEN [st EXCEPT !.kind = "Invalid"]
    ELSE IF At(sequence, st.s) = SLASH
    THEN [st EXCEPT !.kind = "Break"]
    ELSE [st EXCEPT !.type_ = Append(@, to_ascii_lowercase(At(sequence, st.s))),
                    !.s = @ + 1,
                    !.t = @ + 1]

RECURSIVE TypeLoop(_, _, _)
TypeLoop(sequence, st, steps) ==
    IF st.kind # "Loop" THEN st
    ELSE IF steps <= 1 THEN TypeLoop_body(sequence, st)
    ELSE TypeLoop(sequence, TypeLoop(sequence, st, steps \div 2), steps - steps \div 2)

\* the second loop testing the counter only before it pushes a byte
SubtypeLoop_body_late(sequence, st) ==
    IF is_undefined(sequence, st.s)
    THEN [st EXCEPT !.kind = "Return"]
    ELSE IF is_whitespace(At(sequence, st.s)) \/ At(sequence, st.s) = SEMI
    THEN [st EXCEPT !.kind = "Break"]
    ELSE IF st.u > TypeCap
    THEN [st EXCEPT !.kind = "Invalid"]
    ELSE [st EXCEPT !.subtype = Append(@, to_ascii_lowercase(At(sequence, st.s))),
                    !.s = @ + 1,
                    !.u = @ + 1]

\* lines 75-89
SubtypeLoop_body(sequence, st) ==
    IF st.u > TypeCap
    THEN [st EXCEPT !.kind = "Invalid"]
    ELSE IF is_undefined(sequence, st.s)
    THEN [st EXCEPT !.kind = "Return"]
    ELSE IF is_whitespace(At(sequence, st.s)) \/ At(sequence, st.s) = SEMI
    THEN [st EXCEPT !.kind = "Break"]
    ELSE [st EXCEPT !.subtype = Append(@, to_ascii_lowercase(At(sequence, st.s))),
                    !.s = @ + 1,
                    !.u = @ + 1]

RECURSIVE SubtypeLoop(_, _, _)
SubtypeLoop(sequence, st, steps) ==
    IF st.kind # "Loop" THEN st
    ELSE IF steps <= 1 THEN SubtypeLoop_body(sequence, st)
    ELSE SubtypeLoop(sequence, SubtypeLoop(sequence, st, steps \div 2),
                     steps - steps \div 2)

\* lines 76-90, b being how the second loop was left
type_portion_end(type_, b) ==
    IF b.kind = "Invalid"
    THEN [kind |-> "Invalid", type_ |-> <<>>, subtype |-> <<>>, s |-> b.s]
    ELSE [kind |-> "Ok", type_ |-> type_, subtype |-> b.subtype, s |-> b.s]

\* lines 64-75, a being how the first loop was left
type_portion_subtype(sequence, a) ==
    IF a.kind = "Invalid"
    THEN [kind |-> "Invalid", type_ |-> <<>>, subtype |-> <<>>, s |-> a.s]
    ELSE type_portion_end(a.type_,
             SubtypeLoop(sequence,
                         [kind |-> "Loop", subtype |-> <<>>, s |-> a.s + 1, u |-> 0],
                         Steps(sequence)))

parse_type_portion(sequence, s) ==
    type_portion_subtype(sequence,
        TypeLoop(sequence, [kind |-> "Loop", type_ |-> <<>>, s |-> s, t |-> 0],
                 Steps(sequence)))

(***************************************************************************)
(* parse_value (src/src/utils.rs, lines 93-122).  Line 102 reads           *)
(* sequence[*s] again after is_undefined(sequence, *s) made the condition  *)
(* of line 101 true: at the end of the input that read panics.             *)
(***************************************************************************)
\* 'M3, lines 100-111
Loop_M3_body(sequence, st) ==
    IF is_undefined(sequence, st.s)
    THEN [st EXCEPT !.kind = "Panic"]
    ELSE IF At(sequence, st.s) = DQUOTE
    THEN [st EXCEPT !.kind = "Return", !.s = @ + 1]
    ELSE IF At(sequence, st.s) = BACKSLASH /\ ~is_undefined(sequence, st.s + 1)
    THEN [st EXCEPT !.value = Append(@, At(sequence, st.s + 1)), !.s = @ + 2]
    ELSE [st EXCEPT !.value = Append(@, At(sequence, st.s)), !.s = @ + 1]

RECURSIVE Loop_M3(_, _, _)
Loop_M3(sequence, st, steps) ==
    IF st.kind # "Loop" THEN st
    ELSE IF steps <= 1 THEN Loop_M3_body(sequence, st)
    ELSE Loop_M3(sequence, Loop_M3(sequence, st, steps \div 2), steps - steps \div 2)

\* 'M4, lines 113-119
Loop_M4_body(sequence, st) ==
    IF \/ is_undefined(sequence, st.s)
       \/ is_whitespace(At(sequence, st.s))
       \/ At(sequence, st.s) = SEMI
    THEN [st EXCEPT !.kind = "Return"]
    ELSE [st EXCEPT !.value = Append(@, At(sequence, st.s)), !.s = @ + 1]

RECURSIVE Loop_M4(_, _, _)
Loop_M4(sequence, st, steps) ==
    IF st.kind # "Loop" THEN st
    ELSE IF steps <= 1 THEN Loop_M4_body(sequence, st)
    ELSE Loop_M4(sequence, Loop_M4(sequence, st, steps \div 2), steps - steps \div 2)

\* the result is [kind, value, s], kind being "Return" or "Panic"
parse_value(sequence, s) ==
    IF is_undefined(sequence, s)
    THEN [kind |-> "Return", value |-> <<>>, s |-> s]
    ELSE IF At(sequence, s) = DQUOTE
    THEN Loop_M3(sequence, [kind |-> "Loop", value |-> <<>>, s |-> s + 1], Steps(sequence))
    ELSE Loop_M4(sequence, [kind |-> "Loop", value |-> <<>>, s |-> s], Steps(sequence))

(***************************************************************************)
(* parse_parameters (src/src/utils.rs, lines 124-208).                     *)
(***************************************************************************)
NameCap == 127

\* an insert that keeps the value a key already has
insert_if_absent(map, key, value) ==
    [k \in DOMAIN map \cup {key} |-> IF k \in DOMAIN map THEN map[k] ELSE value]

\* HashMap::insert
insert(map, key, value) ==
    [k \in DOMAIN map \cup {key} |-> IF k = key THEN value ELSE map[k]]

\* 'N: skip a quoted string (lines 137-148); line 139 panics at the end
Loop_N_body(sequence, st) ==
    IF is_undefined(sequence, st.s)
    THEN [st EXCEPT !.kind = "Panic"]
    ELSE IF At(sequence, st.s) = DQUOTE
    THEN [st EXCEPT !.kind = "Break", !.s = @ + 1]
    ELSE IF At(sequence, st.s) = BACKSLASH /\ ~is_undefined(sequence, st.s + 1)
    THEN [st EXCEPT !.s = @ + 2]
    ELSE [st EXCEPT !.s = @ + 1]

RECURSIVE Loop_N(_, _, _)
Loop_N(sequence, st, steps) ==
    IF st.kind # "Loop" THEN st
    ELSE IF steps <= 1 THEN Loop_N_body(sequence, st)
    ELSE Loop_N(sequence, Loop_N(sequence, st, steps \div 2), steps - steps \div 2)

\* 'N2: skip an unquoted run (lines 150-156)
Loop_N2_body(sequence, st) ==
    IF \/ is_undefined(sequence, st.s)
       \/ is_whitespace(At(sequence, st.s))
       \/ At(sequence, st.s) = SEMI
    THEN [st EXCEPT !.kind = "Break"]
    ELSE [st EXCEPT !.s = @ + 1]

RECURSIVE Loop_N2(_, _, _)
Loop_N2(sequence, st, steps) ==
    IF st.kind # "Loop" THEN st
    ELSE IF steps <= 1 THEN Loop_N2_body(sequence, st)
    ELSE Loop_N2(sequence, Loop_N2(sequence, st, steps \div 2), steps - steps \div 2)

\* 'M goes on after 'N or 'N2 was left as n says
Loop_M_next(n) == IF n.kind = "Panic" THEN n ELSE [n EXCEPT !.kind = "Loop"]

\* 'M: advance to the next `;` outside quotes, or to the end (lines 127-158)
Loop_M_body(sequence, st) ==
    IF is_undefined(sequence, st.s) \/ At(sequence, st.s) = SEMI
    THEN [st EXCEPT !.kind = "Break"]
    ELSE IF is_whitespace(At(sequence, st.s))
    THEN [st EXCEPT !.s = @ + 1]
    ELSE IF At(sequence, st.s) = DQUOTE
    THEN Loop_M_next(Loop_N(sequence, [st EXCEPT !.s = @ + 1], Steps(sequence)))
    ELSE Loop_M_next(Loop_N2(sequence, st, Steps(sequence)))

RECURSIVE Loop_M(_, _, _)
Loop_M(sequence, st, steps) ==
    IF st.kind # "Loop" THEN st
    ELSE IF steps <= 1 THEN Loop_M_body(sequence, st)
    ELSE Loop_M(sequence, Loop_M(sequence, st, steps \div 2), steps - steps \div 2)

\* `while is_whitespace(sequence[*s]) { *s += 1; }` (lines 163-165, 203-205,
\* 216-218): the condition indexes without a bounds test
SkipWhitespace_body(sequence, st) ==
    IF is_undefined(sequence, st.s)
    THEN [st EXCEPT !.kind = "Panic"]
    ELSE IF is_whitespace(At(sequence, st.s))
    THEN [st EXCEPT !.s = @ + 1]
    ELSE [st EXCEPT !.kind = "Break"]

RECURSIVE SkipWhitespaceLoop(_, _, _)
SkipWhitespaceLoop(sequence, st, steps) ==
    IF st.kind # "Loop" THEN st
    ELSE IF steps <= 1 THEN SkipWhitespace_body(sequence, st)
    ELSE SkipWhitespaceLoop(sequence, SkipWhitespaceLoop(sequence, st, steps \div 2),
                            steps - steps \div 2)

SkipWhitespace(sequence, s) ==
    SkipWhitespaceLoop(sequence, [kind |-> "Loop", s |-> s], Steps(sequence))

\* the name loop (lines 171-188); line 172 indexes before line 176 tests the end
NameLoop_body(sequence, st) ==
    IF is_undefined(sequence, st.s)
    THEN [st EXCEPT !.kind = "Panic"]
    ELSE IF ~(is_whitespace(At(sequence, st.s)) \/ At(sequence, st.s) = EQUALS)
    THEN IF st.p > NameCap
         THEN [st EXCEPT !.kind = "Invalid"]
         ELSE IF is_undefined(sequence, st.s)
         THEN [st EXCEPT !.kind = "Eof"]
         ELSE [st EXCEPT !.name = Append(@, to_ascii_lowercase(At(sequence, st.s))),
                         !.s = @ + 1,
                         !.p = @ + 1]
    ELSE [st EXCEPT !.kind = "Break"]

RECURSIVE NameLoop(_, _, _)
NameLoop(sequence, st, steps) ==
    IF st.kind # "Loop" THEN st
    ELSE IF steps <= 1 THEN NameLoop_body(sequence, st)
    ELSE NameLoop(sequence, NameLoop(sequence, st, steps \div 2), steps - steps \div 2)

\* the whitespace loop after a name (lines 189-197)
ExtraLoop_body(sequence, st) ==
    IF is_undefined(sequence, st.s)
    THEN [st EXCEPT !.kind = "Panic"]
    ELSE IF is_whitespace(At(sequence, st.s))
    THEN [st EXCEPT !.extra = Append(@, At(sequence, st.s)), !.s = @ + 1, !.p = @ + 1]
    ELSE [st EXCEPT !.kind = "Break"]

RECURSIVE ExtraLoop(_, _, _)
ExtraLoop(sequence, st, steps) ==
    IF st.kind # "Loop" THEN st
    ELSE IF steps <= 1 THEN ExtraLoop_body(sequence, st)
    ELSE ExtraLoop(sequence, ExtraLoop(sequence, st, steps \div 2), steps - steps \div 2)

\* 'M2 (lines 169-201), its variables being name, extra, s and p: `extra`
\* is never cleared between iterations.  Loop_M2_test is the test of line
\* 198 after the whitespace loop was left as b says, Loop_M2_extra the
\* iteration after the name loop was left as a says (lines 189-197).
Loop_M2_test(sequence, b) ==
    IF b.kind = "Panic"
    THEN b
    ELSE IF At(sequence, b.s) = EQUALS
    THEN [b EXCEPT !.kind = "Break"]
    ELSE [b EXCEPT !.kind = "Loop"]

Loop_M2_extra(sequence, a) ==
    IF a.kind # "Break"
    THEN a
    ELSE Loop_M2_test(sequence,
                      ExtraLoop(sequence, [a EXCEPT !.kind = "Loop"], Steps(sequence)))

Loop_M2_body(sequence, st) ==
    Loop_M2_extra(sequence,
                  NameLoop(sequence, [st EXCEPT !.name = @ \o st.extra], Steps(sequence)))

RECURSIVE Loop_M2(_, _, _)
Loop_M2(sequence, st, steps) ==
    IF st.kind # "Loop" THEN st
    ELSE IF steps <= 1 THEN Loop_M2_body(sequence, st)
    ELSE Loop_M2(sequence, Loop_M2(sequence, st, steps \div 2), steps - steps \div 2)

\* 'L (lines 126-207), its variables being parameters and s, one operator
\* per step of an iteration: Loop_L_name after 'M was left as m says (lines
\* 159-168), Loop_L_value after 'M2 was left as n says (lines 202-205),
\* Loop_L_insert after the whitespace skip ended as w says (line 206),
\* Loop_L_next after parse_value returned v.
Loop_L_next(parameters, name, v) ==
    IF v.kind = "Panic"
    THEN [kind |-> "Panic", parameters |-> parameters, s |-> v.s]
    ELSE [kind |-> "Loop", parameters |-> insert(parameters, name, v.value), s |-> v.s]

Loop_L_insert(sequence, parameters, name, w) ==
    IF w.kind = "Panic"
    THEN [kind |-> "Panic", parameters |-> parameters, s |-> w.s]
    ELSE Loop_L_next(parameters, name, parse_value(sequence, w.s))

Loop_L_value(sequence, parameters, n) ==
    CASE n.kind = "Panic" ->
           [kind |-> "Panic", parameters |-> parameters, s |-> n.s]
      [] n.kind = "Invalid" ->
           [kind |-> "Invalid", parameters |-> parameters, s |-> n.s]
      [] n.kind = "Eof" ->
           [kind |-> "Ok",
            parameters |->
                IF n.name # <<>> /\ n.name \notin DOMAIN parameters
                THEN insert(parameters, n.name, <<>>)
                ELSE parameters,
            s |-> n.s]
      [] OTHER ->
           Loop_L_insert(sequence, parameters, n.name,
                         SkipWhitespace(sequence, n.s + 1))

Loop_L_start(sequence, parameters, w) ==
    IF w.kind = "Panic"
    THEN [kind |-> "Panic", parameters |-> parameters, s |-> w.s]
    ELSE Loop_L_value(sequence, parameters,
             Loop_M2(sequence,
                     [kind |-> "Loop", name |-> <<>>, extra |-> <<>>, s |-> w.s, p |-> 0],
                     Steps(sequence)))

Loop_L_name(sequence, parameters, m) ==
    IF m.kind = "Panic"
    THEN [kind |-> "Panic", parameters |-> parameters, s |-> m.s]
    ELSE IF is_undefined(sequence, m.s)
    THEN [kind |-> "Ok", parameters |-> parameters, s |-> m.s]
    ELSE Loop_L_start(sequence, parameters, SkipWhitespace(sequence, m.s + 1))

Loop_L_body(sequence, st) ==
    Loop_L_name(sequence, st.parameters,
                Loop_M(sequence, [kind |-> "Loop", s |-> st.s], Steps(sequence)))

RECURSIVE Loop_L(_, _, _)
Loop_L(sequence, st, steps) ==
    IF st.kind # "Loop" THEN st
    ELSE IF steps <= 1 THEN Loop_L_body(sequence, st)
    ELSE Loop_L(sequence, Loop_L(sequence, st, steps \div 2), steps - steps \div 2)

EmptyMap == [k \in {} |-> <<>>]

\* the result is [kind, parameters, s], kind being "Ok", "Invalid" or "Panic"
parse_parameters(sequence, s) ==
    Loop_L(sequence, [kind |-> "Loop", parameters |-> EmptyMap, s |-> s], Steps(sequence))

(***************************************************************************)
(* parse_media_type (src/src/utils.rs, lines 210-222).                     *)
(***************************************************************************)
RawFailure(kind) ==
    [kind |-> kind, type_ |-> <<>>, subtype |-> <<>>, parameters |-> EmptyMap]

\* line 221, ps being what parse_parameters returned
media_type_end(tp, ps) ==
    IF ps.kind # "Ok"
    THEN RawFailure(ps.kind)
    ELSE [kind |-> "Ok", type_ |-> tp.type_, subtype |-> tp.subtype,
          parameters |-> ps.parameters]

\* lines 219-220, tp being what parse_type_portion returned
media_type_parameters(sequence, tp) ==
    IF tp.kind # "Ok"
    THEN RawFailure(tp.kind)
    ELSE media_type_end(tp, parse_parameters(sequence, tp.s))

\* line 219, w being where the whitespace skip of lines 216-218 ended
media_type_portion(sequence, w) ==
    IF w.kind = "Panic"
    THEN RawFailure("Panic")
    ELSE media_type_parameters(sequence, parse_type_portion(sequence, w.s))

parse_media_type(sequence) ==
    IF sequence = <<>>
    THEN RawFailure("Invalid")
    ELSE media_type_portion(sequence, SkipWhitespace(sequence, 0))

(***************************************************************************)
(* The data model (src/src/lib.rs, lines 37-125).  Option<T> is a record   *)
(* [some, val]; None carries a fixed placeholder so that derived equality  *)
(* is record equality.                                                     *)
(***************************************************************************)
Text        == [tag |-> "Text",        name |-> <<>>]
Image       == [tag |-> "Image",       name |-> <<>>]
Audio       == [tag |-> "Audio",       name |-> <<>>]
Video       == [tag |-> "Video",       name |-> <<>>]
Application == [tag |-> "Application", name |-> <<>>]
Multipart   == [tag |-> "Multipart",   name |-> <<>>]
Message     == [tag |-> "Message",     name |-> <<>>]
Model       == [tag |-> "Model",       name |-> <<>>]
Type_Unregistered(string) == [tag |-> "Unregistered", name |-> string]

Standards == [tag |-> "Standards", name |-> <<>>]
Vendor    == [tag |-> "Vendor",    name |-> <<>>]
Personal  == [tag |-> "Personal",  name |-> <<>>]
Private   == [tag |-> "Private",   name |-> <<>>]
Tree_Unregistered(string) == [tag |-> "Unregistered", name |-> string]

Some(x) == [some |-> TRUE, val |-> x]

NoneStr     == [some |-> FALSE, val |-> <<>>]
NoneType    == [some |-> FALSE, val |-> [tag |-> "", name |-> <<>>]]
NoneSubtype ==
    [some |-> FALSE,
     val  |-> [tree |-> [tag |-> "", name |-> <<>>], sub |-> <<>>, suffix |-> NoneStr]]

s_text        == Str(<<"t","e","x","t">>)
s_image       == Str(<<"i","m","a","g","e">>)
s_audio       == Str(<<"a","u","d","i","o">>)
s_video       == Str(<<"v","i","d","e","o">>)
s_application == Str(<<"a","p","p","l","i","c","a","t","i","o","n">>)
s_multipart   == Str(<<"m","u","l","t","i","p","a","r","t">>)
s_message     == Str(<<"m","e","s","s","a","g","e">>)
s_model       == Str(<<"m","o","d","e","l">>)
s_vnd         == Str(<<"v","n","d">>)
s_prs         == Str(<<"p","r","s">>)
s_x           == Str(<<"x">>)
s_star        == Str(<<"*">>)
s_boundary    == Str(<<"b","o","u","n","d","a","r","y">>)

\* impl Display for Type (lines 81-95)
fmt_Type(t) ==
    CASE t.tag = "Text"        -> s_text
      [] t.tag = "Image"       -> s_image
      [] t.tag = "Audio"       -> s_audio
      [] t.tag = "Video"       -> s_video
      [] t.tag = "Application" -> s_application
      [] t.tag = "Multipart"   -> s_multipart
      [] t.tag = "Message"     -> s_message
      [] t.tag = "Model"       -> s_model
      [] OTHER                 -> t.name

\* impl Display for Tree (lines 115-125)
fmt_Tree(t) ==
    CASE t.tag = "Standards" -> <<>>
      [] t.tag = "Vendor"    -> s_vnd \o <<DOT>>
      [] t.tag = "Personal"  -> s_prs \o <<DOT>>
      [] t.tag = "Private"   -> s_x \o <<DOT>>
      [] OTHER               -> t.name \o <<DOT>>

(***************************************************************************)
(* Constructors and accessors (src/src/lib.rs, lines 127-207).             *)
(***************************************************************************)
wildcard == [type_ |-> NoneType, subtype |-> NoneSubtype, parameters |-> EmptyMap]

wildcard_subtype(type_) ==
    [type_ |-> Some(type_), subtype |-> NoneSubtype, parameters |-> EmptyMap]

new(type_, tree, subtype) ==
    [type_      |-> Some(type_),
     subtype    |-> Some([tree |-> tree, sub |-> subtype, suffix |-> NoneStr]),
     parameters |-> EmptyMap]

new_with_suffix(type_, tree, subtype, suffix) ==
    [type_      |-> Some(type_),
     subtype    |-> Some([tree |-> tree, sub |-> subtype, suffix |-> Some(suffix)]),
     parameters |-> EmptyMap]

suffix(self) == IF self.subtype.some THEN self.subtype.val.suffix ELSE NoneStr

\* MediaType::boundary (lines 201-207)
MediaType_boundary(self) ==
    IF s_boundary \notin DOMAIN self.parameters
    THEN [kind |-> "NotFound", val |-> <<>>]
    ELSE IF ~utils_boundary(self.parameters[s_boundary])
    THEN [kind |-> "Invalid", val |-> <<>>]
    ELSE [kind |-> "Ok", val |-> self.parameters[s_boundary]]

(***************************************************************************)
(* Classification (src/src/lib.rs, lines 231-314).                         *)
(***************************************************************************)
\* a comparison of the whole values, parameters included
eq_mime_portion_whole(self, other) == self = other

eq_mime_portion(self, other) ==
    self.type_ = other.type_ /\ self.subtype = other.subtype

ne_mime_portion(self, other) == ~eq_mime_portion(self, other)

s_ogg              == Str(<<"o","g","g">>)
s_font_ttf         == Str(<<"f","o","n","t","-","t","t","f">>)
s_font_cff         == Str(<<"f","o","n","t","-","c","f","f">>)
s_font_off         == Str(<<"f","o","n","t","-","o","f","f">>)
s_font_sfnt        == Str(<<"f","o","n","t","-","s","f","n","t">>)
s_ms_opentype      == Str(<<"m","s","-","o","p","e","n","t","y","p","e">>)
s_font_woff        == Str(<<"f","o","n","t","-","w","o","f","f">>)
s_ms_fontobject    == Str(<<"m","s","-","f","o","n","t","o","b","j","e","c","t">>)
s_zip              == Str(<<"z","i","p">>)
s_x_rar_compressed ==
    Str(<<"x","-","r","a","r","-","c","o","m","p","r","e","s","s","e","d">>)
s_x_gzip           == Str(<<"x","-","g","z","i","p">>)
s_xml              == Str(<<"x","m","l">>)
s_html             == Str(<<"h","t","m","l">>)
s_pdf              == Str(<<"p","d","f">>)

is_image_type(self) == self.type_ = Some(Image)

is_audio_or_video_type(self) ==
    \/ self.type_ = Some(Audio)
    \/ self.type_ = Some(Video)
    \/ eq_mime_portion(new(Application, Standards, s_ogg), self)

is_font_type(self) ==
    \E x \in { new(Application, Standards, s_font_ttf),
               new(Application, Standards, s_font_cff),
               new(Application, Standards, s_font_off),
               new(Application, Standards, s_font_sfnt),
               new(Application, Vendor, s_ms_opentype),
               new(Application, Standards, s_font_woff),
               new(Application, Vendor, s_ms_fontobject) } :
        eq_mime_portion(x, self)

is_zip_based_type(self) ==
    \/ suffix(self) = Some(s_zip)
    \/ eq_mime_portion(new(Application, Standards, s_zip), self)

is_archive_type(self) ==
    \E x \in { new(Application, Standards, s_x_rar_compressed),
               new(Application, Standards, s_zip),
               new(Application, Standards, s_x_gzip) } :
        eq_mime_portion(x, self)

is_xml_type(self) ==
    \/ suffix(self) = Some(s_xml)
    \/ \E x \in { new(Text, Standards, s_xml), new(Application, Standards, s_xml) } :
           eq_mime_portion(x, self)

is_scriptable_mime_type(self) ==
    \E x \in { new(Text, Standards, s_html), new(Application, Standards, s_pdf) } :
        eq_mime_portion(x, self)

(***************************************************************************)
(* impl FromStr for MediaType (src/src/lib.rs, lines 318-376).             *)
(***************************************************************************)
Failure(kind) == [kind |-> kind, value |-> wildcard]

\* String::from_utf8 succeeds on ASCII bytes; the model's strings are ASCII
from_utf8_ok(bytes) == \A i \in 1..Len(bytes) : bytes[i] < 128

contains(str, c) == \E i \in 1..Len(str) : str[i] = c

\* str::rsplitn(2, c) splitting at the first c instead of the last
rsplitn2_at_first(str, c) ==
    LET i == CHOOSE k \in 1..Len(str) :
                 str[k] = c /\ \A j \in 1..(k - 1) : str[j] # c
    IN  <<SubSeq(str, 1, i - 1), SubSeq(str, i + 1, Len(str))>>

\* str::rsplitn(2, c): <<before the last c, after the last c>>
rsplitn2(str, c) ==
    LET i == CHOOSE k \in 1..Len(str) :
                 str[k] = c /\ \A j \in (k + 1)..Len(str) : str[j] # c
    IN  <<SubSeq(str, 1, i - 1), SubSeq(str, i + 1, Len(str))>>

\* str::splitn(2, c): <<before the first c, after the first c>>
splitn2(str, c) ==
    LET i == CHOOSE k \in 1..Len(str) :
                 str[k] = c /\ \A j \in 1..(k - 1) : str[j] # c
    IN  <<SubSeq(str, 1, i - 1), SubSeq(str, i + 1, Len(str))>>

\* lines 322-333
type_of(raw_type) ==
    CASE raw_type = s_star        -> NoneType
      [] raw_type = s_text        -> Some(Text)
      [] raw_type = s_image       -> Some(Image)
      [] raw_type = s_audio       -> Some(Audio)
      [] raw_type = s_video       -> Some(Video)
      [] raw_type = s_application -> Some(Application)
      [] raw_type = s_multipart   -> Some(Multipart)
      [] raw_type = s_message     -> Some(Message)
      [] raw_type = s_model       -> Some(Model)
      [] OTHER                    -> Some(Type_Unregistered(raw_type))

\* lines 357-362
tree_of(facet) ==
    CASE facet = s_vnd -> Vendor
      [] facet = s_prs -> Personal
      [] facet = s_x   -> Private
      [] OTHER         -> Tree_Unregistered(facet)

\* lines 339-374
subtype_of(raw_subtype) ==
    IF raw_subtype = s_star
    THEN NoneSubtype
    ELSE
    LET parts  == IF contains(raw_subtype, PLUS)
                  THEN rsplitn2(raw_subtype, PLUS)
                  ELSE <<raw_subtype, <<>>>>
        prefix == parts[1]
        suffix_opt == IF contains(raw_subtype, PLUS) THEN Some(parts[2]) ELSE NoneStr
        split  == IF contains(prefix, DOT) THEN splitn2(prefix, DOT) ELSE <<<<>>, prefix>>
        tree   == IF contains(prefix, DOT) THEN tree_of(split[1]) ELSE Standards
    IN  Some([tree |-> tree, sub |-> split[2], suffix |-> suffix_opt])

\* the pairs stored under their names without a trailing `*`
parameters_of_unstarred(raw_parameters) ==
    LET bare(key) == IF key # <<>> /\ key[Len(key)] = STAR
                     THEN SubSeq(key, 1, Len(key) - 1)
                     ELSE key
    IN  [name \in { bare(key) : key \in DOMAIN raw_parameters } |->
            raw_parameters[CHOOSE key \in DOMAIN raw_parameters : bare(key) = name]]

\* lines 334-338: every raw pair is stored as it is
parameters_of(raw_parameters) ==
    [key \in DOMAIN raw_parameters |-> raw_parameters[key]]

\* lines 322-375, raw being what utils::parse_media_type returned
structure(raw) ==
    IF raw.kind # "Ok"
    THEN Failure(raw.kind)
    ELSE IF \/ ~from_utf8_ok(raw.type_)
            \/ ~from_utf8_ok(raw.subtype)
            \/ \E key \in DOMAIN raw.parameters :
                   ~from_utf8_ok(key) \/ ~from_utf8_ok(raw.parameters[key])
    THEN Failure("Utf8Error")
    ELSE [kind  |-> "Ok",
          value |-> [type_      |-> type_of(raw.type_),
                     subtype    |-> subtype_of(raw.subtype),
                     parameters |-> parameters_of(raw.parameters)]]

from_str(str) == structure(parse_media_type(str))

(***************************************************************************)
(* impl Display for MediaType (src/src/lib.rs, lines 378-407).  `items`    *)
(* is the order in which the HashMap iterator yields the keys, which the   *)
(* language leaves open; sort_by puts it into key order.                   *)
(***************************************************************************)
\* Ord for str: byte-wise lexicographic
str_lt(first, second) ==
    \E i \in 1..Len(second) :
        /\ \A j \in 1..(i - 1) : j <= Len(first) /\ first[j] = second[j]
        /\ (i > Len(first) \/ first[i] < second[i])

RECURSIVE insert_sorted(_, _)
insert_sorted(sorted, key) ==
    IF sorted = <<>> THEN <<key>>
    ELSE IF str_lt(key, Head(sorted)) THEN <<key>> \o sorted
    ELSE <<Head(sorted)>> \o insert_sorted(Tail(sorted), key)

\* the items left in the order of the iterator
sort_by_unsorted(items) == items

RECURSIVE sort_by(_)
sort_by(items) ==
    IF items = <<>> THEN <<>>
    ELSE insert_sorted(sort_by(SubSeq(items, 1, Len(items) - 1)), items[Len(items)])

\* lines 399-403
fmt_item(key, value) ==
    IF token(value)
    THEN <<SEMI, SP>> \o key \o <<EQUALS>> \o value
    ELSE <<SEMI, SP>> \o key \o <<EQUALS, DQUOTE>> \o value \o <<DQUOTE>>

RECURSIVE fmt_items(_, _)
fmt_items(parameters, items) ==
    IF items = <<>> THEN <<>>
    ELSE fmt_item(Head(items), parameters[Head(items)])
             \o fmt_items(parameters, Tail(items))

\* lines 380-393
fmt_mime(self) ==
    IF self.type_.some
    THEN fmt_Type(self.type_.val) \o <<SLASH>> \o
         (IF self.subtype.some
          THEN fmt_Tree(self.subtype.val.tree) \o self.subtype.val.sub \o
               (IF self.subtype.val.suffix.some
                THEN <<PLUS>> \o self.subtype.val.suffix.val
                ELSE <<>>)
          ELSE <<STAR>>)
    ELSE <<STAR, SLASH, STAR>>

fmt(self, items) == fmt_mime(self) \o fmt_items(self.parameters, sort_by(items))

\* the orders in which the iterator of a HashMap may yield its keys
Orders(map) ==
    { items \in [1..Cardinality(DOMAIN map) -> DOMAIN map] :
        \A i, j \in 1..Cardinality(DOMAIN map) : i # j => items[i] # items[j] }

(***************************************************************************)
(* The state of a use of the library: the string handed to parse, the      *)
(* outcome, the MediaType value under inspection (parsed or constructed,   *)
(* possibly edited through its public parameter map), and what the         *)
(* operations applied to it returned.                                      *)
(***************************************************************************)
VARIABLES
    input,      \* the string handed to str::parse::<MediaType>
    pc,         \* the last operation: "start", "failed", "value", "shown", ...
    result,     \* what parse returned: [kind, value]
    value,      \* the MediaType under inspection
    text,       \* value.to_string()
    again,      \* what parsing `text` returned
    bnd,        \* value.boundary()
    cls         \* the classification predicates of value

vars == <<input, pc, result, value, text, again, bnd, cls>>

NoResult   == Failure("None")
NoBoundary == [kind |-> "None", val |-> <<>>]
NoClasses  ==
    [ran |-> FALSE, image |-> FALSE, audio_or_video |-> FALSE, font |-> FALSE,
     zip_based |-> FALSE, archive |-> FALSE, xml |-> FALSE, scriptable |-> FALSE]

classes(self) ==
    [ran            |-> TRUE,
     image          |-> is_image_type(self),
     audio_or_video |-> is_audio_or_video_type(self),
     font           |-> is_font_type(self),
     zip_based      |-> is_zip_based_type(self),
     archive        |-> is_archive_type(self),
     xml            |-> is_xml_type(self),
     scriptable     |-> is_scriptable_mime_type(self)]

Init ==
    /\ input = <<>>
    /\ pc = "start"
    /\ result = NoResult
    /\ value = wildcard
    /\ text = <<>>
    /\ again = NoResult
    /\ bnd = NoBoundary
    /\ cls = NoClasses

\* str.parse::<MediaType>() on a string of Strings
Parse(Strings) ==
    /\ pc = "start"
    /\ \E str \in Strings :
          /\ input' = str
          /\ result' = from_str(str)
    /\ value' = result'.value
    /\ pc' = IF result'.kind = "Ok" THEN "value" ELSE "failed"
    /\ UNCHANGED <<text, again, bnd, cls>>

\* MediaType::wildcard()
Wildcard ==
    /\ pc = "start"
    /\ value' = wildcard
    /\ pc' = "value"
    /\ UNCHANGED <<input, result, text, again, bnd, cls>>

\* MediaType::wildcard_subtype(t)
WildcardSubtype(Types) ==
    /\ pc = "start"
    /\ \E t \in Types : value' = wildcard_subtype(t)
    /\ pc' = "value"
    /\ UNCHANGED <<input, result, text, again, bnd, cls>>

\* MediaType::new(t, tree, sub)
New(Types, Trees, Names) ==
    /\ pc = "start"
    /\ \E t \in Types, tree \in Trees, sub \in Names : value' = new(t, tree, sub)
    /\ pc' = "value"
    /\ UNCHANGED <<input, result, text, again, bnd, cls>>

\* MediaType::new_with_suffix(t, tree, sub, suf)
NewWithSuffix(Types, Trees, Names, Suffixes) ==
    /\ pc = "start"
    /\ \E t \in Types, tree \in Trees, sub \in Names, suf \in Suffixes :
          value' = new_with_suffix(t, tree, sub, suf)
    /\ pc' = "value"
    /\ UNCHANGED <<input, result, text, again, bnd, cls>>

\* value.parameters.insert(key, val), the map being a public field
Insert(Keys, Values, Max) ==
    /\ pc = "value"
    /\ Cardinality(DOMAIN value.parameters) < Max
    /\ \E key \in Keys, val \in Values :
          value' = [value EXCEPT !.parameters = insert(@, key, val)]
    /\ UNCHANGED <<input, pc, result, text, again, bnd, cls>>

\* value.to_string()
Display ==
    /\ pc = "value"
    /\ \E items \in Orders(value.parameters) : text' = fmt(value, items)
    /\ pc' = "shown"
    /\ UNCHANGED <<input, result, value, again, bnd, cls>>

\* value.to_string().parse::<MediaType>()
Reparse ==
    /\ pc = "shown"
    /\ again' = from_str(text)
    /\ pc' = "reparsed"
    /\ UNCHANGED <<input, result, value, text, bnd, cls>>

\* value.boundary()
Boundary ==
    /\ pc = "value"
    /\ bnd' = MediaType_boundary(value)
    /\ pc' = "boundary"
    /\ UNCHANGED <<input, result, value, text, again, cls>>

\* value.is_image_type(), ..., value.is_scriptable_mime_type()
Classify ==
    /\ pc = "value"
    /\ cls' = classes(value)
    /\ pc' = "classified"
    /\ UNCHANGED <<input, result, value, text, again, bnd>>

(***************************************************************************)
(* Strings over an alphabet, up to a length.                               *)
(***************************************************************************)
StringsUpTo(Alphabet, n) == UNION { [1..k -> Alphabet] : k \in 0..n }

Cat(A, B) == { a \o b : a \in A, b \in B }

Rep(c, n) == [i \in 1..n |-> c]

(***************************************************************************)
(* Spec: parsing strings made of a type portion and a raw parameter tail.  *)
(***************************************************************************)
MaxTail == 4

TailAlphabet == { SEMI, EQUALS, SP, DQUOTE, BACKSLASH, Code("k") }

Heads == { <<>>, Str(<<"a","/","b">>), Str(<<"*","/","p">>), Str(<<" ","a","/","*">>) }

Inputs == Cat(Heads, StringsUpTo(TailAlphabet, MaxTail))

Next ==
    \/ Parse(Inputs)
    \/ Display
    \/ Reparse
    \/ Boundary
    \/ Classify

Spec == Init /\ [][Next]_vars

(***************************************************************************)
(* SpecTypes: parsing type portions, `type/subtype` followed by nothing,   *)
(* by whitespace or by a parameter.                                        *)
(***************************************************************************)
MaxSub == 4

TypeTokens ==
    { s_star, s_text, s_image, s_audio, s_video, s_application, s_multipart,
      s_message, s_model, Str(<<"a">>), Str(<<"*","*">>), <<>> }

SubtypeAlphabet == { STAR, PLUS, DOT, Code("x") }

SubtypeTokens ==
    StringsUpTo(SubtypeAlphabet, MaxSub) \cup
    { Str(<<"p","l","a","i","n">>),
      Str(<<"v","n","d",".","a",".","b","+","c","+","d">>),
      Str(<<"p","r","s",".","a","+","b",".","c">>),
      Str(<<"v","n","d","x",".","a">>),
      Str(<<"v","n","d">>) }

TypeRests == { <<>>, Str(<<" ",";","k","=","v">>) }

TypeInputs == Cat(Cat(Cat(TypeTokens, {<<SLASH>>}), SubtypeTokens), TypeRests)

NextTypes ==
    \/ Parse(TypeInputs)
    \/ Display
    \/ Reparse

SpecTypes == Init /\ [][NextTypes]_vars

(***************************************************************************)
(* SpecCase: parsing `type/subtype` and `type/subtype;name=value` written  *)
(* in mixed case.                                                          *)
(***************************************************************************)
MaxName == 2

CaseTypes ==
    { Str(<<"T","E","X","T">>), Str(<<"t","E","x","t">>), s_star,
      Str(<<"a">>), Str(<<"A">>) }

CaseSubtypes ==
    { Str(<<"V","N","D",".","A","+","B">>), Str(<<"v","n","d",".","a","+","B">>),
      Str(<<"X",".","y","+","Z">>), s_star }

CaseNames == StringsUpTo({ Code("a"), Code("A"), Code("B") }, MaxName)

CaseValues == { Str(<<"V">>), Str(<<"v">>), Str(<<"V","w">>) }

CaseParameters ==
    {<<>>} \cup Cat(Cat(Cat({<<SEMI>>}, CaseNames), {<<EQUALS>>}), CaseValues)

CaseInputs == Cat(Cat(Cat(CaseTypes, {<<SLASH>>}), CaseSubtypes), CaseParameters)

NextCase ==
    \/ Parse(CaseInputs)
    \/ Display
    \/ Reparse

SpecCase == Init /\ [][NextCase]_vars

(***************************************************************************)
(* SpecValues: parsing `a/b;k=` followed by a value, unquoted or quoted,   *)
(* and then by nothing, by whitespace or by a second parameter.  A quoted  *)
(* value is written from its bytes, a backslash before every `"` and `\`   *)
(* and before any of the other bytes.                                      *)
(***************************************************************************)
MaxVal == 2

ValuePrefix == Str(<<"a","/","b",";","k","=">>)

s_k == Str(<<"k">>)
s_z == Str(<<"z">>)
s_1 == Str(<<"1">>)

SecondParameter == Str(<<";","z","=","1">>)

ValueRests == { <<>>, <<SP>>, SecondParameter }

UnquotedValues ==
    { u \in StringsUpTo({ Code("a"), Code("A"), Code("%"), BACKSLASH, DQUOTE }, MaxVal) :
        u = <<>> \/ u[1] # DQUOTE }

QuotedValues ==
    StringsUpTo({ Code("a"), Code("A"), SEMI, SP, DQUOTE, BACKSLASH }, MaxVal)

\* the positions of v that have to be written with a backslash
MustEscape(v) == { i \in 1..Len(v) : v[i] = DQUOTE \/ v[i] = BACKSLASH }

Escapes(v) == { E \in SUBSET (1..Len(v)) : MustEscape(v) \subseteq E }

\* the characters first..last of v as they are written between quotes
RECURSIVE Written(_, _, _, _)
Written(v, E, first, last) ==
    IF first > last THEN <<>>
    ELSE IF first = last
    THEN (IF first \in E THEN <<BACKSLASH, v[first]>> ELSE <<v[first]>>)
    ELSE Written(v, E, first, (first + last) \div 2)
             \o Written(v, E, (first + last) \div 2 + 1, last)

Quoted(v, E) == <<DQUOTE>> \o Written(v, E, 1, Len(v)) \o <<DQUOTE>>

ValueInputs ==
    Cat(Cat({ValuePrefix},
            UnquotedValues \cup UNION { { Quoted(v, E) : E \in Escapes(v) } : v \in QuotedValues }),
        ValueRests)

NextValues ==
    \/ Parse(ValueInputs)
    \/ Display
    \/ Reparse

SpecValues == Init /\ [][NextValues]_vars

(***************************************************************************)
(* SpecBoundary: parsing `m/x` with a quoted boundary parameter, short     *)
(* values over a small alphabet and values around the length limit, and    *)
(* without one.                                                            *)
(***************************************************************************)
MaxBoundary == 3

BoundaryPrefix == Str(<<"m","/","x",";"," ","b","o","u","n","d","a","r","y","=">>)

BoundaryValues ==
    StringsUpTo({ Code("a"), SP, Code("!"), DQUOTE }, MaxBoundary) \cup
    { Rep(Code("a"), BoundaryMax - 1),
      Rep(Code("a"), BoundaryMax),
      Rep(Code("a"), BoundaryMax + 1),
      Rep(SP, BoundaryMax - 1) \o <<Code("?")>>,
      Rep(Code("a"), BoundaryMax - 1) \o <<SP>>,
      Rep(Code("a"), BoundaryMax - 1) \o <<Code("!")>>,
      Rep(SP, BoundaryMax) \o <<Code("a")>> }

BoundaryInput(v) == BoundaryPrefix \o Quoted(v, MustEscape(v))

BoundaryInputs ==
    { BoundaryInput(v) : v \in BoundaryValues } \cup
    { Str(<<"m","/","x">>),
      Str(<<"m","/","x",";","k","=","a">>),
      Str(<<"m","/","x",";","B","o","u","n","d","a","r","y","=","a","/","b">>),
      Str(<<"m","/","x",";","b","o","u","n","d","a","r","y","*","=","a">>) }

NextBoundary ==
    \/ Parse(BoundaryInputs)
    \/ Boundary
    \/ Display

SpecBoundary == Init /\ [][NextBoundary]_vars

(***************************************************************************)
(* SpecExtended: parsing `a/b;t*=` followed by a value in the notation of  *)
(* RFC 2231, charset'language'percent-encoded text, or by part of one.     *)
(***************************************************************************)
MaxExtended == 4

ExtendedPrefix == Str(<<"a","/","b",";","t","*","=">>)

s_t      == Str(<<"t">>)
s_t_star == Str(<<"t","*">>)

s_extended == Str(<<"u","'","u","'","%","2","A","u","%","2","A">>)

\* values of one character at least
ExtendedValues ==
    (StringsUpTo({ SQUOTE, Code("%"), Code("2"), Code("A"), Code("u") }, MaxExtended)
         \ { <<>> }) \cup { s_extended }

ExtendedInputs == Cat({ExtendedPrefix}, ExtendedValues)

NextExtended ==
    \/ Parse(ExtendedInputs)
    \/ Display
    \/ Reparse

SpecExtended == Init /\ [][NextExtended]_vars

(***************************************************************************)
(* SpecBuild: values made by the constructors, their parameter map edited. *)
(***************************************************************************)
MaxParams == 3

s_example == Str(<<"e","x","a","m","p","l","e">>)
s_foobar  == Str(<<"f","o","o","b","a","r">>)

BuildTypes == { Image, Type_Unregistered(s_example) }

BuildTrees == { Standards, Private }

BuildKeys == { Str(<<"a">>), Str(<<"a","b">>), Str(<<"b">>), Str(<<"Z">>) }

BuildValues == { s_1, Str(<<"f","o","o"," ",",">>), <<>>, Str(<<"a","\"","b">>) }

NextBuild ==
    \/ Wildcard
    \/ WildcardSubtype(BuildTypes)
    \/ New(BuildTypes, BuildTrees, {s_foobar})
    \/ NewWithSuffix(BuildTypes, BuildTrees, {s_foobar}, {s_xml})
    \/ Insert(BuildKeys, BuildValues, MaxParams)
    \/ Display

SpecBuild == Init /\ [][NextBuild]_vars

(***************************************************************************)
(* SpecClassify: values made by the constructors from the names the        *)
(* classification predicates list and from names close to them, with and   *)
(* without parameters.                                                     *)
(***************************************************************************)
MaxClassifyParams == 1

ClassifyTypes ==
    { Text, Image, Audio, Video, Application, Type_Unregistered(s_application) }

ClassifyTrees == { Standards, Vendor, Tree_Unregistered(s_vnd) }

ClassifyNames ==
    { s_ogg, s_font_ttf, s_font_cff, s_font_off, s_font_sfnt, s_ms_opentype,
      s_font_woff, s_ms_fontobject, s_zip, s_x_rar_compressed, s_x_gzip, s_xml,
      s_html, s_pdf, s_star, s_zip \o s_x, Str(<<"f","o","n","t">>),
      Str(<<"p","l","a","i","n">>) }

ClassifySuffixes == { s_zip, s_xml, s_ogg, <<>> }

NextClassify ==
    \/ Wildcard
    \/ WildcardSubtype(ClassifyTypes)
    \/ New(ClassifyTypes, ClassifyTrees, ClassifyNames)
    \/ NewWithSuffix(ClassifyTypes, ClassifyTrees, ClassifyNames, ClassifySuffixes)
    \/ Insert({s_k, s_boundary}, {s_1}, MaxClassifyParams)
    \/ Classify

SpecClassify == Init /\ [][NextClassify]_vars

(***************************************************************************)
(* SpecNames: parsing `a/b`, an earlier parameter or none, and a last      *)
(* parameter whose name has whitespace in it or which ends with its name.  *)
(***************************************************************************)
MaxRegion == 5

NamesHead == Str(<<"a","/","b">>)

s_a == Str(<<"a">>)

\* the parameters before the last one, with the map they make
EarlierParameters ==
    { [text |-> <<>>, map |-> EmptyMap],
      [text |-> Str(<<";","z","=","1">>), map |-> [key \in {s_z} |-> s_1]],
      [text |-> Str(<<";","a","=","1">>), map |-> [key \in {s_a} |-> s_1]] }

\* what is written between `;` and `=`, from its first name byte
NameRegions ==
    { region \in StringsUpTo({ Code("a"), Code("B"), SP }, MaxRegion) :
        region # <<>> /\ region[1] # SP }

\* names the input ends with, of one byte at least
LastNames == StringsUpTo({ Code("a"), Code("B") }, MaxRegion) \ { <<>> }

RegionInput(region) == NamesHead \o <<SEMI>> \o region \o Str(<<"=","v">>)

LastNameInput(earlier, lead, name) == NamesHead \o earlier.text \o <<SEMI>> \o lead \o name

NamesInputs ==
    { RegionInput(region) : region \in NameRegions } \cup
    { LastNameInput(earlier, lead, name) :
        earlier \in EarlierParameters, lead \in { <<>>, <<SP>> }, name \in LastNames }

NextNames ==
    \/ Parse(NamesInputs)
    \/ Display
    \/ Reparse

SpecNames == Init /\ [][NextNames]_vars

(***************************************************************************)
(* SpecCaps: parsing inputs whose type token, subtype token or parameter   *)
(* name is about as long as the caps.                                      *)
(***************************************************************************)
MaxOver == 2

CapLengths == {1} \cup ((TypeCap - MaxOver)..(TypeCap + MaxOver))

CapRests == { <<>>, <<SP>>, Str(<<";","k","=","v">>) }

CapTypeInput(n, m, rest) == Rep(Code("A"), n) \o <<SLASH>> \o Rep(Code("b"), m) \o rest

CapNameInput(n) == NamesHead \o <<SEMI>> \o Rep(Code("N"), n) \o Str(<<"=","v">>)

CapInputs ==
    { CapTypeInput(n, m, rest) : n \in CapLengths, m \in CapLengths, rest \in CapRests } \cup
    { CapNameInput(n) : n \in CapLengths }

NextCaps ==
    \/ Parse(CapInputs)
    \/ Display
    \/ Reparse

SpecCaps == Init /\ [][NextCaps]_vars

(***************************************************************************)
(* SpecDuplicates: parsing `a/b` followed by up to MaxPairs name=value     *)
(* pairs whose names repeat, in the same or in another case.               *)
(***************************************************************************)
MaxPairs == 3

s_2 == Str(<<"2">>)

Pairs == [name : { s_k, Str(<<"K">>), s_z }, value : { s_1, s_2 }]

PairLists == UNION { [1..n -> Pairs] : n \in 1..MaxPairs }

RECURSIVE PairsText(_)
PairsText(pairs) ==
    IF pairs = <<>> THEN <<>>
    ELSE <<SEMI>> \o Head(pairs).name \o <<EQUALS>> \o Head(pairs).value
             \o PairsText(Tail(pairs))

DuplicatesInput(pairs) == NamesHead \o PairsText(pairs)

DuplicatesInputs == { DuplicatesInput(pairs) : pairs \in PairLists }

NextDuplicates ==
    \/ Parse(DuplicatesInputs)
    \/ Display
    \/ Reparse

SpecDuplicates == Init /\ [][NextDuplicates]_vars

(***************************************************************************)
(* Properties.                                                             *)
(***************************************************************************)
Parsed == result.kind # "None"

ParsedOk == result.kind = "Ok"

\* C1: round-trip stability: whenever parse succeeds on the input with a
\* value v, parse(v.to_string()) succeeds and returns a value equal to v.
C1_RoundTrip ==
    (pc = "reparsed" /\ ParsedOk) => (again.kind = "Ok" /\ again.value = result.value)

\* C2: parse returns Err(Invalid) for the empty input and for every input
\* that consists only of whitespace bytes.
C2_BlankIsInvalid ==
    (Parsed /\ \A i \in 1..Len(input) : is_whitespace(input[i]))
        => result.kind = "Invalid"

(***************************************************************************)
(* The tokens of an input `type/subtype...` as the grammar defines them:   *)
(* the type token ends before the first `/`, the subtype token before the  *)
(* first whitespace or `;` after it, or at the end.                        *)
(***************************************************************************)
FirstSlash(str) ==
    CHOOSE k \in 1..Len(str) : str[k] = SLASH /\ \A j \in 1..(k - 1) : str[j] # SLASH

SubtypeEnd(str) ==
    CHOOSE k \in (FirstSlash(str) + 1)..(Len(str) + 1) :
        /\ k <= Len(str) => (is_whitespace(str[k]) \/ str[k] = SEMI)
        /\ \A j \in (FirstSlash(str) + 1)..(k - 1) :
               ~(is_whitespace(str[j]) \/ str[j] = SEMI)

TypeTokenOf(str) == SubSeq(str, 1, FirstSlash(str) - 1)

SubtypeTokenOf(str) == SubSeq(str, FirstSlash(str) + 1, SubtypeEnd(str) - 1)

\* the facet a tree stands for
FacetOf(tree) ==
    CASE tree.tag = "Vendor"   -> s_vnd
      [] tree.tag = "Personal" -> s_prs
      [] tree.tag = "Private"  -> s_x
      [] OTHER                 -> tree.name

PrefixOf(st) ==
    IF st.tree = Standards THEN st.sub ELSE FacetOf(st.tree) \o <<DOT>> \o st.sub

\* C5: the type is None exactly when the type token is `*`, the subtype is
\* None exactly when the subtype token is `*`; any other subtype token is
\* prefix [+ suffix], split at its last `+`, and the prefix is [facet .]
\* subtype, split at its first `.`, the facet naming the tree (vnd, prs, x,
\* anything else unregistered) and no `.` meaning the Standards tree.
C5_Structure ==
    ParsedOk =>
        LET T  == TypeTokenOf(input)
            S  == SubtypeTokenOf(input)
            v  == result.value
            st == v.subtype.val
        IN  /\ ~v.type_.some <=> T = s_star
            /\ ~v.subtype.some <=> S = s_star
            /\ v.subtype.some =>
                 /\ S = PrefixOf(st) \o
                        (IF st.suffix.some THEN <<PLUS>> \o st.suffix.val ELSE <<>>)
                 /\ st.suffix.some <=> contains(S, PLUS)
                 /\ st.suffix.some => ~contains(st.suffix.val, PLUS)
                 /\ st.tree = Standards <=> ~contains(PrefixOf(st), DOT)
                 /\ st.tree # Standards => ~contains(FacetOf(st.tree), DOT)
                 /\ st.tree.tag \in {"Standards", "Vendor", "Personal", "Private",
                                     "Unregistered"}
                 /\ st.tree.tag = "Unregistered" =>
                        st.tree.name \notin {s_vnd, s_prs, s_x}
                 /\ st.tree.tag # "Unregistered" => st.tree.name = <<>>

\* a vendor-tree subtype with a `.` and a `+` left in the subtype, and a suffix
C5_Witness ==
    /\ ParsedOk
    /\ result.value.subtype.some
    /\ result.value.subtype.val.tree = Vendor
    /\ result.value.subtype.val.suffix.some
    /\ contains(result.value.subtype.val.sub, DOT)
    /\ contains(result.value.subtype.val.sub, PLUS)

\* C9: to_string renders the type name, or `*` for a wildcard type, then
\* `/`, then the tree prefix, the subtype and `+suffix` when the subtype is
\* present, and `*` in the subtype position only when the subtype is absent
\* (here followed by the parameters, all of them tokens in this model).
C9_MimePortion ==
    pc = "shown" =>
        text = (IF value.type_.some THEN fmt_Type(value.type_.val) ELSE <<STAR>>)
               \o <<SLASH>>
               \o (IF value.subtype.some
                   THEN PrefixOf(value.subtype.val) \o
                        (IF value.subtype.val.suffix.some
                         THEN <<PLUS>> \o value.subtype.val.suffix.val
                         ELSE <<>>)
                   ELSE <<STAR>>)
               \o fmt_items(value.parameters, sort_by(CHOOSE o \in Orders(value.parameters) : TRUE))


(***************************************************************************)
(* ASCII case, stated apart from the tokenizer.                            *)
(***************************************************************************)
IsUpper(c) == c \in Code("A")..Code("Z")

LowerOf(c) == IF IsUpper(c) THEN c + (Code("a") - Code("A")) ELSE c

UpperOf(c) == IF c \in Code("a")..Code("z") THEN c - (Code("a") - Code("A")) ELSE c

NoUpper(str) == \A i \in 1..Len(str) : ~IsUpper(str[i])

\* the names of `type/subtype;name=value` are all that precedes the `=`
NamesEnd(str) ==
    IF contains(str, EQUALS)
    THEN CHOOSE k \in 1..Len(str) : str[k] = EQUALS /\ \A j \in 1..(k - 1) : str[j] # EQUALS
    ELSE Len(str) + 1

LowerNames(str) ==
    [i \in 1..Len(str) |-> IF i < NamesEnd(str) THEN LowerOf(str[i]) ELSE str[i]]

UpperNames(str) ==
    [i \in 1..Len(str) |-> IF i < NamesEnd(str) THEN UpperOf(str[i]) ELSE str[i]]

FirstSemi(str) ==
    CHOOSE k \in 1..Len(str) : str[k] = SEMI /\ \A j \in 1..(k - 1) : str[j] # SEMI

\* C4: a value produced by parse has no uppercase ASCII letter in its type,
\* tree facet, subtype, suffix or parameter keys; writing the type token, the
\* subtype token and the parameter name of the input in lower or in upper
\* case gives the same value, and the parameter value keeps its case.
C4_CaseFolded ==
    ParsedOk =>
        LET v == result.value
        IN  /\ NoUpper(v.type_.val.name)
            /\ NoUpper(v.subtype.val.tree.name)
            /\ NoUpper(v.subtype.val.sub)
            /\ NoUpper(v.subtype.val.suffix.val)
            /\ \A key \in DOMAIN v.parameters : NoUpper(key)
            /\ from_str(LowerNames(input)) = result
            /\ from_str(UpperNames(input)) = result
            /\ contains(input, EQUALS) =>
                   LET name == SubSeq(input, FirstSemi(input) + 1, NamesEnd(input) - 1)
                       val  == SubSeq(input, NamesEnd(input) + 1, Len(input))
                   IN  v.parameters = [key \in {LowerNames(name)} |-> val]

\* an input with an uppercase letter in the type token, in the subtype token
\* and in the parameter name, and a value with an uppercase letter
C4_Witness ==
    /\ ParsedOk
    /\ contains(input, EQUALS)
    /\ ~NoUpper(TypeTokenOf(input))
    /\ ~NoUpper(SubtypeTokenOf(input))
    /\ ~NoUpper(SubSeq(input, FirstSemi(input) + 1, NamesEnd(input) - 1))
    /\ \E key \in DOMAIN result.value.parameters : ~NoUpper(result.value.parameters[key])

\* what the parameters of `a/b;k=<value><rest>` are, when <value> says val
ExpectedOf(val, rest) ==
    IF rest = SecondParameter
    THEN [key \in {s_k, s_z} |-> IF key = s_k THEN val ELSE s_1]
    ELSE [key \in {s_k} |-> val]

\* C6: a parameter value is stored as written, without case folding or
\* percent-decoding: a value that starts with `"` and is closed by an
\* unescaped `"` yields the bytes between the quotes, each backslash dropped
\* and the byte after it kept, so that `;`, whitespace and `\"` inside the
\* quotes belong to the value; any other value yields the bytes up to the
\* next whitespace, `;` or end of input.
C6_ValueAsWritten ==
    Parsed =>
        /\ \A u \in UnquotedValues, rest \in ValueRests :
               input = ValuePrefix \o u \o rest =>
                   (ParsedOk /\ result.value.parameters = ExpectedOf(u, rest))
        /\ \A v \in QuotedValues, rest \in ValueRests :
               \A E \in Escapes(v) :
                   input = ValuePrefix \o Quoted(v, E) \o rest =>
                       (ParsedOk /\ result.value.parameters = ExpectedOf(v, rest))

\* the same, leaving out the inputs that end at the `=` or in the whitespace
\* after it
C6_ValueAsWrittenUnlessCutShort ==
    Parsed =>
        /\ \A u \in UnquotedValues, rest \in ValueRests :
               (input = ValuePrefix \o u \o rest /\ ~(u = <<>> /\ rest # SecondParameter)) =>
                   (ParsedOk /\ result.value.parameters = ExpectedOf(u, rest))
        /\ \A v \in QuotedValues, rest \in ValueRests :
               \A E \in Escapes(v) :
                   input = ValuePrefix \o Quoted(v, E) \o rest =>
                       (ParsedOk /\ result.value.parameters = ExpectedOf(v, rest))

(***************************************************************************)
(* RFC 2231 decoding of charset'language'text, stated apart from the code. *)
(***************************************************************************)
HexDigits == Str(<<"0","1","2","3","4","5","6","7","8","9","A","B","C","D","E","F">>)

IsHex(c) == \E d \in 1..Len(HexDigits) : HexDigits[d] = UpperOf(c)

HexValue(c) == (CHOOSE d \in 1..Len(HexDigits) : HexDigits[d] = UpperOf(c)) - 1

RECURSIVE PercentDecode(_)
PercentDecode(str) ==
    IF str = <<>> THEN <<>>
    ELSE IF Len(str) >= 3 /\ str[1] = Code("%") /\ IsHex(str[2]) /\ IsHex(str[3])
    THEN <<16 * HexValue(str[2]) + HexValue(str[3])>> \o PercentDecode(SubSeq(str, 4, Len(str)))
    ELSE <<Head(str)>> \o PercentDecode(Tail(str))

Delimiters(str) == Cardinality({ i \in 1..Len(str) : str[i] = SQUOTE })

AfterSecondDelimiter(str) ==
    LET second == CHOOSE k \in 1..Len(str) :
                      /\ str[k] = SQUOTE
                      /\ Cardinality({ j \in 1..(k - 1) : str[j] = SQUOTE }) = 1
    IN  SubSeq(str, second + 1, Len(str))

\* C3 as the specification states it: for a parameter whose name ends with
\* `*` the value is stored under the name without the `*`, percent-decoded
\* and cut after the second `'`; with fewer than two `'` the parse fails
\* with Invalid.
C3_ExtendedDecoded ==
    Parsed =>
        \A ext \in ExtendedValues :
            input = ExtendedPrefix \o ext =>
                IF Delimiters(PercentDecode(ext)) < 2
                THEN result.kind = "Invalid"
                ELSE /\ ParsedOk
                     /\ result.value.parameters =
                            [key \in {s_t} |-> AfterSecondDelimiter(PercentDecode(ext))]

\* C3: for a parameter whose name ends with `*` the value is stored as it
\* is written, not percent-decoded and with its charset'language' part,
\* under the name as it is written, `*` included; the parse succeeds
\* whatever the number of `'` in the value.
C3_ExtendedStoredRaw ==
    Parsed =>
        \A ext \in ExtendedValues :
            input = ExtendedPrefix \o ext =>
                /\ ParsedOk
                /\ result.value.parameters = [key \in {s_t_star} |-> ext]

\* a value with charset, language and percent-encoded text was parsed
C3_Witness ==
    /\ ParsedOk
    /\ input = ExtendedPrefix \o s_extended
    /\ s_t_star \in DOMAIN result.value.parameters

(***************************************************************************)
(* The grammar 0*69<bchars> bcharsnospace of RFC 1341, stated apart from   *)
(* the code.                                                               *)
(***************************************************************************)
BoundaryAlphabet ==
    (Code("0")..Code("9")) \cup (Code("A")..Code("Z")) \cup (Code("a")..Code("z")) \cup
    { Code("'"), Code("("), Code(")"), Code("+"), Code("_"), Code(","), Code("-"),
      Code("."), Code("/"), Code(":"), Code("="), Code("?"), Code(" ") }

InBoundaryGrammar(str) ==
    /\ Len(str) \in 1..70
    /\ \A i \in 1..Len(str) : str[i] \in BoundaryAlphabet
    /\ str[Len(str)] # Code(" ")

\* C7: boundary() returns Err(NotFound) when the value has no `boundary`
\* parameter, Ok(stored value) exactly when the stored value has 1 to 70
\* characters, all of the bchars alphabet, the last one not a space, and
\* Err(Invalid) for every other stored value; parse succeeds on every quoted
\* boundary value and stores it.
C7_Boundary ==
    /\ pc = "boundary" =>
           IF s_boundary \notin DOMAIN value.parameters
           THEN bnd = [kind |-> "NotFound", val |-> <<>>]
           ELSE IF InBoundaryGrammar(value.parameters[s_boundary])
           THEN bnd = [kind |-> "Ok", val |-> value.parameters[s_boundary]]
           ELSE bnd = [kind |-> "Invalid", val |-> <<>>]
    /\ Parsed =>
           \A v \in BoundaryValues :
               input = BoundaryInput(v) =>
                   /\ ParsedOk
                   /\ result.value.parameters = [key \in {s_boundary} |-> v]

\* boundary() accepted a value of 70 characters with spaces in it
C7_Witness ==
    /\ pc = "boundary"
    /\ bnd.kind = "Ok"
    /\ Len(bnd.val) = 70
    /\ contains(bnd.val, SP)

(***************************************************************************)
(* The parameters in ascending byte order of their keys, stated apart from *)
(* the sort of the code.                                                   *)
(***************************************************************************)
RECURSIVE ByteLess(_, _)
ByteLess(first, second) ==
    IF second = <<>> THEN FALSE
    ELSE IF first = <<>> THEN TRUE
    ELSE IF Head(first) # Head(second) THEN Head(first) < Head(second)
    ELSE ByteLess(Tail(first), Tail(second))

Piece(key, val) ==
    IF val # <<>> /\ \A i \in 1..Len(val) : tchar(val[i])
    THEN Str(<<";"," ">>) \o key \o Str(<<"=">>) \o val
    ELSE Str(<<";"," ">>) \o key \o Str(<<"=","\"">>) \o val \o Str(<<"\"">>)

RECURSIVE Rendered(_)
Rendered(map) ==
    IF DOMAIN map = {} THEN <<>>
    ELSE LET least == CHOOSE key \in DOMAIN map :
                          \A other \in DOMAIN map : other = key \/ ByteLess(key, other)
         IN  Piece(least, map[least])
                 \o Rendered([key \in DOMAIN map \ {least} |-> map[key]])

\* C8: to_string renders the parameters after the type portion in ascending
\* byte order of their keys, whatever the order in which the map yields
\* them, each as `; key=value` when the value is a non-empty string of tchar
\* characters and as `; key="value"`, the value unchanged and nothing
\* escaped, otherwise.
C8_Parameters ==
    pc = "shown" => text = fmt_mime(value) \o Rendered(value.parameters)

\* three parameters were rendered, one of them with a `"` in its value and
\* one with an uppercase key
C8_Witness ==
    /\ pc = "shown"
    /\ Cardinality(DOMAIN value.parameters) = 3
    /\ \E key \in DOMAIN value.parameters : contains(value.parameters[key], DQUOTE)
    /\ \E key \in DOMAIN value.parameters : ~NoUpper(key)

(***************************************************************************)
(* The groups of the MIME Sniffing standard, stated apart from the code.   *)
(***************************************************************************)
MimeIs(v, t, tree, sub) ==
    /\ v.type_.some /\ v.type_.val = t
    /\ v.subtype.some
    /\ v.subtype.val.tree = tree
    /\ v.subtype.val.sub = sub
    /\ ~v.subtype.val.suffix.some

SuffixIs(v, suf) ==
    v.subtype.some /\ v.subtype.val.suffix.some /\ v.subtype.val.suffix.val = suf

TypeIs(v, t) == v.type_.some /\ v.type_.val = t

\* C10: every classification predicate is a function of the mime portion:
\* the value gets the results of the value with no parameters and of the
\* value with other parameters, and each predicate is true exactly on its
\* literal set and its type or suffix test.
C10_Classification ==
    pc = "classified" =>
        /\ \A other \in { EmptyMap, [key \in {s_z} |-> s_1] } :
               /\ eq_mime_portion(value, [value EXCEPT !.parameters = other])
               /\ classes([value EXCEPT !.parameters = other]) = cls
        /\ cls.image <=> TypeIs(value, Image)
        /\ cls.audio_or_video <=>
               \/ TypeIs(value, Audio)
               \/ TypeIs(value, Video)
               \/ MimeIs(value, Application, Standards, s_ogg)
        /\ cls.font <=>
               \/ \E sub \in { s_font_ttf, s_font_cff, s_font_off, s_font_sfnt, s_font_woff } :
                      MimeIs(value, Application, Standards, sub)
               \/ \E sub \in { s_ms_opentype, s_ms_fontobject } :
                      MimeIs(value, Application, Vendor, sub)
        /\ cls.zip_based <=>
               SuffixIs(value, s_zip) \/ MimeIs(value, Application, Standards, s_zip)
        /\ cls.archive <=>
               \E sub \in { s_x_rar_compressed, s_zip, s_x_gzip } :
                   MimeIs(value, Application, Standards, sub)
        /\ cls.xml <=>
               \/ SuffixIs(value, s_xml)
               \/ MimeIs(value, Text, Standards, s_xml)
               \/ MimeIs(value, Application, Standards, s_xml)
        /\ cls.scriptable <=>
               \/ MimeIs(value, Text, Standards, s_html)
               \/ MimeIs(value, Application, Standards, s_pdf)

\* a font of the vendor tree was classified while it had a parameter
C10_Witness ==
    /\ pc = "classified"
    /\ cls.font
    /\ value.subtype.val.tree = Vendor
    /\ DOMAIN value.parameters # {}

\* C11: the tokenizer never reads a byte at or beyond the end of the input:
\* whatever the input, the parse ends with Ok or with Err, never with an
\* index out of range.
C11_NoReadPastEnd == Parsed => result.kind # "Panic"

LowerStr(str) == [i \in 1..Len(str) |-> LowerOf(str[i])]

\* C12: when the input ends while a parameter name is being read, before
\* any `=`, the parse succeeds; the name is registered with an empty value
\* if it is not empty and not in the map, and the parameters parsed earlier
\* are kept.
C12_NameAtEnd ==
    Parsed =>
        \A earlier \in EarlierParameters, lead \in { <<>>, <<SP>> }, name \in LastNames :
            input = LastNameInput(earlier, lead, name) =>
                /\ ParsedOk
                /\ result.value.parameters =
                       IF name # <<>> /\ LowerStr(name) \notin DOMAIN earlier.map
                       THEN [key \in DOMAIN earlier.map \cup { LowerStr(name) } |->
                                IF key \in DOMAIN earlier.map THEN earlier.map[key] ELSE <<>>]
                       ELSE earlier.map

\* a region without the whitespace at its end
TrimmedRegion(region) ==
    SubSeq(region, 1, CHOOSE k \in 1..Len(region) :
                          region[k] # SP /\ \A j \in (k + 1)..Len(region) : region[j] = SP)

\* C15: the key of a parameter whose name region has whitespace in it is
\* the lowercased input from the first name byte to the last non-whitespace
\* byte before `=`, for any number of whitespace-separated segments:
\* whitespace directly before `=` is dropped, whitespace between segments
\* is kept as it is written.
C15_KeyWithWhitespace ==
    Parsed =>
        \A region \in NameRegions :
            input = RegionInput(region) =>
                /\ ParsedOk
                /\ result.value.parameters =
                       [key \in { LowerStr(TrimmedRegion(region)) } |-> Str(<<"v">>)]

\* the same for the regions of at most two segments
C15_KeyOfTwoSegments ==
    Parsed =>
        \A region \in NameRegions :
            (/\ input = RegionInput(region)
             /\ Cardinality({ k \in 2..Len(region) :
                                 region[k] # SP /\ region[k - 1] = SP }) <= 1) =>
                /\ ParsedOk
                /\ result.value.parameters =
                       [key \in { LowerStr(TrimmedRegion(region)) } |-> Str(<<"v">>)]

\* C13: the parse fails with Invalid when the type token or the subtype
\* token is longer than 127 bytes, and succeeds, keeping the tokens in lower
\* case, when the type token followed by `/` and the subtype token have at
\* most 127 bytes.
C13_TypeCaps ==
    Parsed =>
        \A n \in CapLengths, m \in CapLengths, rest \in CapRests :
            input = CapTypeInput(n, m, rest) =>
                IF n > 127 \/ m > 127
                THEN result.kind = "Invalid"
                ELSE /\ ParsedOk
                     /\ result.value.type_ = Some(Type_Unregistered(Rep(Code("a"), n)))
                     /\ result.value.subtype.some
                     /\ result.value.subtype.val.sub = Rep(Code("b"), m)

\* a type token and a subtype token of 127 bytes each were accepted
C13_Witness ==
    /\ ParsedOk
    /\ Len(result.value.type_.val.name) = 127
    /\ Len(result.value.subtype.val.sub) = 127

\* C14: the parse fails with Invalid whenever the name of a parameter
\* exceeds 127 bytes, and no key of a parsed value is longer than 127 bytes.
C14_NameCap ==
    Parsed =>
        /\ \A n \in CapLengths :
               (input = CapNameInput(n) /\ n > 127) => result.kind = "Invalid"
        /\ ParsedOk =>
               \A key \in DOMAIN result.value.parameters : Len(key) <= 127

\* the same with 128 in the place of 127, for names without whitespace
C14_NameCapOneMore ==
    Parsed =>
        \A n \in CapLengths :
            input = CapNameInput(n) =>
                IF n > 128
                THEN result.kind = "Invalid"
                ELSE /\ ParsedOk
                     /\ result.value.parameters =
                            [key \in { Rep(Code("n"), n) } |-> Str(<<"v">>)]

\* the last pair of the list whose name is key in lower case
LastOf(pairs, key) ==
    pairs[CHOOSE i \in 1..Len(pairs) :
              /\ LowerStr(pairs[i].name) = key
              /\ \A j \in (i + 1)..Len(pairs) : LowerStr(pairs[j].name) # key]

\* C16: when a name, compared in lower case, occurs in several name=value
\* pairs of an input, the parse succeeds, the map has exactly one entry for
\* the name, and its value is that of the last occurrence.
C16_LastWins ==
    Parsed =>
        \A pairs \in PairLists :
            input = DuplicatesInput(pairs) =>
                /\ ParsedOk
                /\ DOMAIN result.value.parameters =
                       { LowerStr(pairs[i].name) : i \in 1..Len(pairs) }
                /\ \A key \in DOMAIN result.value.parameters :
                       result.value.parameters[key] = LastOf(pairs, key).value

\* k=1, then K or k, then K=2 were parsed
C16_Witness ==
    /\ ParsedOk
    /\ \E pairs \in PairLists :
           /\ Len(pairs) = 3
           /\ input = DuplicatesInput(pairs)
           /\ pairs[1] = [name |-> s_k, value |-> s_1]
           /\ LowerStr(pairs[2].name) = s_k
           /\ pairs[3] = [name |-> Str(<<"K">>), value |-> s_2]
    /\ result.value.parameters = [key \in {s_k} |-> s_2]

=============================================================================
